---- MODULE Spec2Model ----
(***************************************************************************)
(* Model of the disease-outbreak headline parser (src/src/disease_parser.py)*)
(* and of the region-scoped analyzer (src/src/africa_analyzer.py).          *)
(*                                                                          *)
(* A headline is a Python str: here a sequence of one-character strings, so *)
(* that `x in headline` is a real substring search and str.lower() a real   *)
(* per-character conversion.                                                *)
(***************************************************************************)
EXTENDS Integers, Sequences, FiniteSets, TLC

VARIABLES hashSeed, headline, record, appended, data, analyzer, result

vars == <<hashSeed, headline, record, appended, data, analyzer, result>>

(***************************************************************************)
(* Bounds of the model.                                                     *)
(***************************************************************************)
\* number of phrases a composed headline holds at most
MaxPhrases == 2
\* number of hash seeds (each fixes the iteration order of the str sets)
NumSeeds == 7
\* number of rows of the DataFrame at most
MaxRecords == 3

\* Python's None, where a str or a float may stand: distinct from every str
None == <<"None">>

\* what a call gave: nothing yet, a value, or an exception
NotCalled == [status |-> "not called"]
Returned(v) == [status |-> "returned", value |-> v]
Raised(e) == [status |-> "raised", error |-> e]

\* the last operation called on the analyzer, and what it gave
NoResult == [call |-> [op |-> "none"], outcome |-> NotCalled]

(***************************************************************************)
(* Python str operations.                                                   *)
(***************************************************************************)
UpperCase == <<"A","B","C","D","E","F","G","H","I","J","K","L","M",
               "N","O","P","Q","R","S","T","U","V","W","X","Y","Z">>
LowerCase == <<"a","b","c","d","e","f","g","h","i","j","k","l","m",
               "n","o","p","q","r","s","t","u","v","w","x","y","z">>
Digits == {"0","1","2","3","4","5","6","7","8","9"}

\* the lower-case letter of each upper-case letter
LowerOf ==
    [c \in {UpperCase[i] : i \in 1..Len(UpperCase)} |->
        LowerCase[CHOOSE i \in 1..Len(UpperCase) : UpperCase[i] = c]]

\* str.lower() on one character
LowerChar(c) == IF c \in DOMAIN LowerOf THEN LowerOf[c] ELSE c

\* str.lower()
RECURSIVE Lower(_)
Lower(s) == IF s = <<>> THEN <<>> ELSE <<LowerChar(Head(s))>> \o Lower(Tail(s))

\* `needle in s` for two str
Contains(s, needle) ==
    \/ needle = <<>>
    \/ \E i \in 1..(Len(s) - Len(needle) + 1) :
          s[i] = needle[1] /\ SubSeq(s, i, i + Len(needle) - 1) = needle

\* code points: the upper-case letters precede the lower-case letters
Alphabet == UpperCase \o LowerCase
CodePoint(c) == CHOOSE i \in 1..Len(Alphabet) : Alphabet[i] = c

\* a < b for two str of letters
RECURSIVE StrLess(_, _)
StrLess(a, b) ==
    IF b = <<>> THEN FALSE
    ELSE IF a = <<>> THEN TRUE
    ELSE IF Head(a) = Head(b) THEN StrLess(Tail(a), Tail(b))
    ELSE CodePoint(Head(a)) < CodePoint(Head(b))

\* str.strip(): the white space of the model's alphabet is the blank
RECURSIVE LStrip(_)
LStrip(s) == IF s # <<>> /\ Head(s) = " " THEN LStrip(Tail(s)) ELSE s

RECURSIVE RStrip(_)
RStrip(s) ==
    IF s # <<>> /\ s[Len(s)] = " " THEN RStrip(SubSeq(s, 1, Len(s) - 1)) ELSE s

Strip(s) == RStrip(LStrip(s))

(***************************************************************************)
(* DiseaseOutbreakParser.__init__: the gazetteer and the disease catalog.   *)
(***************************************************************************)
Uganda == <<"U","g","a","n","d","a">>
Kenya == <<"K","e","n","y","a">>
Tanzania == <<"T","a","n","z","a","n","i","a">>
Rwanda == <<"R","w","a","n","d","a">>
Burundi == <<"B","u","r","u","n","d","i">>
SouthSudan == <<"S","o","u","t","h"," ","S","u","d","a","n">>
Ethiopia == <<"E","t","h","i","o","p","i","a">>
Somalia == <<"S","o","m","a","l","i","a">>

Kampala == <<"K","a","m","p","a","l","a">>
Entebbe == <<"E","n","t","e","b","b","e">>
Gulu == <<"G","u","l","u">>
Mbarara == <<"M","b","a","r","a","r","a">>
Nairobi == <<"N","a","i","r","o","b","i">>
Mombasa == <<"M","o","m","b","a","s","a">>
Kisumu == <<"K","i","s","u","m","u">>
DarEsSalaam == <<"D","a","r"," ","e","s"," ","S","a","l","a","a","m">>
Arusha == <<"A","r","u","s","h","a">>
Zanzibar == <<"Z","a","n","z","i","b","a","r">>
Kigali == <<"K","i","g","a","l","i">>
Butare == <<"B","u","t","a","r","e">>
Bujumbura == <<"B","u","j","u","m","b","u","r","a">>
Gitega == <<"G","i","t","e","g","a">>
Juba == <<"J","u","b","a">>
Malakal == <<"M","a","l","a","k","a","l">>
AddisAbaba == <<"A","d","d","i","s"," ","A","b","a","b","a">>
DireDawa == <<"D","i","r","e"," ","D","a","w","a">>
Mogadishu == <<"M","o","g","a","d","i","s","h","u">>
Hargeisa == <<"H","a","r","g","e","i","s","a">>

\* the dict east_african_countries in its insertion order; each value is a
\* set of str, written here in the order of the source text
east_african_countries ==
    << [country |-> Uganda,     cities |-> <<Kampala, Entebbe, Gulu, Mbarara>>],
       [country |-> Kenya,      cities |-> <<Nairobi, Mombasa, Kisumu>>],
       [country |-> Tanzania,   cities |-> <<DarEsSalaam, Arusha, Zanzibar>>],
       [country |-> Rwanda,     cities |-> <<Kigali, Butare>>],
       [country |-> Burundi,    cities |-> <<Bujumbura, Gitega>>],
       [country |-> SouthSudan, cities |-> <<Juba, Malakal>>],
       [country |-> Ethiopia,   cities |-> <<AddisAbaba, DireDawa>>],
       [country |-> Somalia,    cities |-> <<Mogadishu, Hargeisa>>] >>

Ebola == <<"E","b","o","l","a">>
Malaria == <<"M","a","l","a","r","i","a">>
Cholera == <<"C","h","o","l","e","r","a">>
Tuberculosis == <<"T","u","b","e","r","c","u","l","o","s","i","s">>
HIV == <<"H","I","V">>
Measles == <<"M","e","a","s","l","e","s">>
Meningitis == <<"M","e","n","i","n","g","i","t","i","s">>
Rabies == <<"R","a","b","i","e","s">>
Influenza == <<"I","n","f","l","u","e","n","z","a">>
Hepatitis == <<"H","e","p","a","t","i","t","i","s">>
Unknown == <<"U","n","k","n","o","w","n">>

african_diseases ==
    [high_priority   |-> {Ebola, Malaria, Cholera, Tuberculosis, HIV},
     medium_priority |-> {Measles, Meningitis, Rabies},
     low_priority    |-> {Influenza, Hepatitis}]

\* the members of all_diseases, in the order of the source text
DiseaseListing ==
    <<Ebola, Malaria, Cholera, Tuberculosis, HIV,
      Measles, Meningitis, Rabies, Influenza, Hepatitis>>

\* all_locations: every city and every country of the gazetteer
all_locations ==
    UNION {{east_african_countries[i].country} \cup
           {east_african_countries[i].cities[j] :
                j \in 1..Len(east_african_countries[i].cities)} :
           i \in 1..Len(east_african_countries)}

(***************************************************************************)
(* Iteration order of a Python set of str.  The language leaves it          *)
(* unspecified and it changes with the interpreter's hash seed; within one  *)
(* process it is fixed.  The model draws the seed once, in Init, and takes  *)
(* the order of a set to be a rotation of its listing: whichever members of *)
(* a set match, each of them comes first under some rotation, so every      *)
(* result a first-match loop can give is covered.                           *)
(***************************************************************************)
Rotate(s, k) ==
    [i \in 1..Len(s) |-> s[((i - 1 + k) % Len(s)) + 1]]

\* `for disease in self.all_diseases`
all_diseases(seed) == Rotate(DiseaseListing, seed % Len(DiseaseListing))

\* `for city in cities`
CityOrder(cities, seed) == Rotate(cities, seed % Len(cities))

(***************************************************************************)
(* DiseaseOutbreakParser                                                    *)
(***************************************************************************)
RECURSIVE FirstDisease(_, _, _)
FirstDisease(order, i, headline_lower) ==
    IF i > Len(order) THEN Unknown
    ELSE IF Contains(headline_lower, Lower(order[i])) THEN order[i]
    ELSE FirstDisease(order, i + 1, headline_lower)

_extract_disease(h, seed) == FirstDisease(all_diseases(seed), 1, Lower(h))

\* the inner loop `for city in cities: if city in headline: ...; break`
RECURSIVE FirstCity(_, _, _)
FirstCity(order, j, h) ==
    IF j > Len(order) THEN None
    ELSE IF Contains(h, order[j]) THEN order[j]
    ELSE FirstCity(order, j + 1, h)

\* LocationStep with the flags assigned from the match at hand, so that a
\* later match of another country clears is_uganda
LocationStepFlagsOfLastMatch(location, entry, h, seed) ==
    LET afterCountry ==
            IF Contains(h, entry.country)
            THEN [location EXCEPT
                    !.country = entry.country,
                    !.is_east_africa = TRUE,
                    !.is_uganda = (entry.country = Uganda)]
            ELSE location
        city == FirstCity(CityOrder(entry.cities, seed), 1, h)
    IN  IF city # None
        THEN [afterCountry EXCEPT
                !.city = city,
                !.country = entry.country,
                !.is_east_africa = TRUE,
                !.is_uganda = (entry.country = Uganda)]
        ELSE afterCountry

\* LocationStep with a city match that forgets `is_east_africa = True`
LocationStepCityNotEastAfrica(location, entry, h, seed) ==
    LET afterCountry ==
            IF Contains(h, entry.country)
            THEN [location EXCEPT
                    !.country = entry.country,
                    !.is_east_africa = TRUE,
                    !.is_uganda = IF entry.country = Uganda THEN TRUE ELSE @]
            ELSE location
        city == FirstCity(CityOrder(entry.cities, seed), 1, h)
    IN  IF city # None
        THEN [afterCountry EXCEPT
                !.city = city,
                !.country = entry.country,
                !.is_uganda = IF entry.country = Uganda THEN TRUE ELSE @]
        ELSE afterCountry

\* one pass of the outer loop over east_african_countries.items()
LocationStep(location, entry, h, seed) ==
    LET afterCountry ==
            IF Contains(h, entry.country)
            THEN [location EXCEPT
                    !.country = entry.country,
                    !.is_east_africa = TRUE,
                    !.is_uganda = IF entry.country = Uganda THEN TRUE ELSE @]
            ELSE location
        city == FirstCity(CityOrder(entry.cities, seed), 1, h)
    IN  IF city # None
        THEN [afterCountry EXCEPT
                !.city = city,
                !.country = entry.country,
                !.is_east_africa = TRUE,
                !.is_uganda = IF entry.country = Uganda THEN TRUE ELSE @]
        ELSE afterCountry

RECURSIVE LocationLoop(_, _, _, _)
LocationLoop(location, i, h, seed) ==
    IF i > Len(east_african_countries) THEN location
    ELSE LocationLoop(LocationStep(location, east_african_countries[i], h, seed),
                      i + 1, h, seed)

_extract_location(h, seed) ==
    LocationLoop([country |-> None, city |-> None,
                  is_east_africa |-> FALSE, is_uganda |-> FALSE], 1, h, seed)

high_severity ==
    << <<"o","u","t","b","r","e","a","k">>,
       <<"e","p","i","d","e","m","i","c">>,
       <<"d","e","a","t","h">>,
       <<"f","a","t","a","l">>,
       <<"e","m","e","r","g","e","n","c","y">>,
       <<"c","l","a","i","m","s"," ","l","i","v","e","s">>,
       <<"s","u","r","g","e">> >>

medium_severity ==
    << <<"s","p","r","e","a","d">>,
       <<"c","a","s","e","s">>,
       <<"i","n","f","e","c","t","e","d">>,
       <<"c","o","n","f","i","r","m","e","d">>,
       <<"r","i","s","e">>,
       <<"i","n","c","r","e","a","s","e">>,
       <<"a","l","e","r","t">> >>

\* `any(word in headline_lower for word in words)`
AnyWordIn(words, headline_lower) ==
    \E i \in 1..Len(words) : Contains(headline_lower, words[i])

\* DiseaseBase with the medium tier scored as the high tier
DiseaseBaseMediumAsHigh(disease) ==
    IF disease \in african_diseases.high_priority THEN 2
    ELSE IF disease \in african_diseases.medium_priority THEN 2
    ELSE 0

\* the score given to the disease's priority
DiseaseBase(disease) ==
    IF disease \in african_diseases.high_priority THEN 2
    ELSE IF disease \in african_diseases.medium_priority THEN 1
    ELSE 0

\* the score given to the keywords
KeywordBonus(headline_lower) ==
    IF AnyWordIn(high_severity, headline_lower) THEN 2
    ELSE IF AnyWordIn(medium_severity, headline_lower) THEN 1
    ELSE 0

\* SeverityLevel with `== 3` written for `>= 3`
SeverityLevelExactlyThree(severity_base) ==
    IF severity_base = 3 THEN "High"
    ELSE IF severity_base >= 1 THEN "Medium"
    ELSE "Low"

\* the mapping of the final score to a severity level
SeverityLevel(severity_base) ==
    IF severity_base >= 3 THEN "High"
    ELSE IF severity_base >= 1 THEN "Medium"
    ELSE "Low"

_analyze_severity(h, seed) ==
    SeverityLevel(DiseaseBase(_extract_disease(h, seed)) + KeywordBonus(Lower(h)))

\* _is_african_location with a list of places that reaches beyond the
\* gazetteer
_is_african_location_beyond_gazetteer(h) ==
    \E location \in all_locations \cup {<<"D","a","k","a","r">>} :
        Contains(h, location)

_is_african_location(h) == \E location \in all_locations : Contains(h, location)

\* _classify_region with is_uganda derived anew, from the resolved country
_classify_region_by_country(h, seed) ==
    LET location == _extract_location(h, seed)
    IN  [is_africa |-> IF location.country # None THEN TRUE
                       ELSE _is_african_location(h),
         is_east_africa |-> location.is_east_africa,
         is_uganda |-> location.country = Uganda]

_classify_region(h, seed) ==
    LET location == _extract_location(h, seed)
    IN  [is_africa |-> IF location.country # None THEN TRUE
                       ELSE _is_african_location(h),
         is_east_africa |-> location.is_east_africa,
         is_uganda |-> location.is_uganda]

\* re.match(r'(\d{4}-\d{2}-\d{2}):', headline)
DatePositions == {1, 2, 3, 4, 6, 7, 9, 10}

\* _extract_date with the current date returned when no date is found
_extract_date_or_today(h) ==
    IF /\ Len(h) >= 11
       /\ \A i \in DatePositions : h[i] \in Digits
       /\ h[5] = "-" /\ h[8] = "-" /\ h[11] = ":"
    THEN SubSeq(h, 1, 10)
    ELSE <<"2","0","2","4","-","0","1","-","2","5">>

_extract_date(h) ==
    IF /\ Len(h) >= 11
       /\ \A i \in DatePositions : h[i] \in Digits
       /\ h[5] = "-" /\ h[8] = "-" /\ h[11] = ":"
    THEN SubSeq(h, 1, 10)
    ELSE None

(***************************************************************************)
(* The geocoder is an external service.  One call ends in one of these      *)
(* ways: a place with coordinates, no place, the exception                  *)
(* GeocoderTimedOut, or another exception of the geocoding library.         *)
(***************************************************************************)
GeoOutcomes == {"found", "no_match", "timed_out", "other_error"}

\* the coordinates of a place that was found: one value stands for a float
Latitude == <<"latitude">>
Longitude == <<"longitude">>

\* _get_coordinates: the except clause names GeocoderTimedOut only
_get_coordinates(location, geo) ==
    IF location.city = None /\ location.country = None
    THEN Returned([latitude |-> None, longitude |-> None])
    ELSE CASE geo = "found" ->
                Returned([latitude |-> Latitude, longitude |-> Longitude])
           [] geo = "no_match" ->
                Returned([latitude |-> None, longitude |-> None])
           [] geo = "timed_out" ->
                Returned([latitude |-> None, longitude |-> None])
           [] geo = "other_error" -> Raised("GeocoderServiceError")

\* the dict built at the top of parse_headline
ParsedFields(h, seed) ==
    [headline |-> Strip(h),
     date |-> _extract_date(h),
     disease |-> _extract_disease(h, seed),
     location |-> _extract_location(h, seed),
     severity |-> _analyze_severity(h, seed),
     region |-> _classify_region(h, seed)]

HasLocation(d) == d.location.country # None \/ d.location.city # None

\* the outcomes of the geocoder that a call of parse_headline can meet
GeoCalls(d) == IF HasLocation(d) THEN GeoOutcomes ELSE {"not_called"}

\* the rest of parse_headline: data['location'].update(coords)
WithCoordinates(d, geo) ==
    IF ~HasLocation(d) THEN Returned(d)
    ELSE LET coords == _get_coordinates(d.location, geo)
         IN  IF coords.status = "raised" THEN coords
             ELSE Returned([d EXCEPT !.location =
                      [country |-> d.location.country,
                       city |-> d.location.city,
                       is_east_africa |-> d.location.is_east_africa,
                       is_uganda |-> d.location.is_uganda,
                       latitude |-> coords.value.latitude,
                       longitude |-> coords.value.longitude]])

parse_headline(h, seed, geo) == WithCoordinates(ParsedFields(h, seed), geo)

(***************************************************************************)
(* pandas Timestamp: a calendar date, or NaT.  Timestamps are ordered and   *)
(* subtracted by their day number.                                          *)
(***************************************************************************)
NaT == [isnat |-> TRUE, year |-> 0, month |-> 0, day |-> 0]
Timestamp(y, m, d) == [isnat |-> FALSE, year |-> y, month |-> m, day |-> d]

DigitChars == <<"0","1","2","3","4","5","6","7","8","9">>
DigitValue(c) == (CHOOSE i \in 1..Len(DigitChars) : DigitChars[i] = c) - 1

\* the number a str of digits writes
RECURSIVE Number(_)
Number(s) ==
    IF s = <<>> THEN 0
    ELSE 10 * Number(SubSeq(s, 1, Len(s) - 1)) + DigitValue(s[Len(s)])

\* pd.to_datetime on one value of the date column: None or 'YYYY-MM-DD'
to_datetime(date) ==
    IF date = None THEN NaT
    ELSE Timestamp(Number(SubSeq(date, 1, 4)),
                   Number(SubSeq(date, 6, 7)),
                   Number(SubSeq(date, 9, 10)))

\* the day number of a calendar date (days since 1970-01-01)
DayNumber(t) ==
    LET y == IF t.month <= 2 THEN t.year - 1 ELSE t.year
        era == y \div 400
        yoe == y - era * 400
        mp == IF t.month > 2 THEN t.month - 3 ELSE t.month + 9
        doy == (153 * mp + 2) \div 5 + t.day - 1
        doe == yoe * 365 + yoe \div 4 - yoe \div 100 + doy
    IN  era * 146097 + doe - 719468

\* n written with at least `width` digits
RECURSIVE ZeroPadded(_, _)
ZeroPadded(n, width) ==
    IF width <= 1 /\ n < 10 THEN <<DigitChars[n + 1]>>
    ELSE ZeroPadded(n \div 10, width - 1) \o <<DigitChars[(n % 10) + 1]>>

\* Timestamp.strftime('%Y-%m-%d'); NaT.strftime raises ValueError
strftime(t) ==
    IF t.isnat THEN Raised("ValueError")
    ELSE Returned(ZeroPadded(t.year, 4) \o <<"-">> \o ZeroPadded(t.month, 2)
                  \o <<"-">> \o ZeroPadded(t.day, 2))

\* the row of the DataFrame that process_headlines makes of a parsed dict
ToRow(d) == [d EXCEPT !.date = to_datetime(d.date)]

(***************************************************************************)
(* AfricaOutbreakAnalyzer.  A DataFrame is the sequence of its rows.        *)
(***************************************************************************)
IsUgandaRow(row) == row.location.is_uganda
IsEastAfricaRow(row) == row.location.is_east_africa

\* _filter_uganda_data with the test of _filter_east_africa_data
_filter_uganda_data_by_east_africa(df) == SelectSeq(df, IsEastAfricaRow)

_filter_uganda_data(df) == SelectSeq(df, IsUgandaRow)

_filter_east_africa_data(df) == SelectSeq(df, IsEastAfricaRow)

AfricaOutbreakAnalyzer(df) ==
    [data |-> df,
     uganda_data |-> _filter_uganda_data(df),
     east_africa_data |-> _filter_east_africa_data(df)]

disease_priority ==
    [d \in {Ebola, Malaria, Cholera, Tuberculosis, HIV} |-> "high"] @@
    [d \in {Measles, Meningitis, Rabies} |-> "medium"] @@
    [d \in {Influenza, Hepatitis} |-> "low"]

\* the if/elif/else that opens every operation
RegionData(an, region) ==
    IF region = "uganda" THEN an.uganda_data
    ELSE IF region = "east_africa" THEN an.east_africa_data
    ELSE an.data

Range(seq) == {seq[i] : i \in 1..Len(seq)}

\* data['disease'] and data['severity']: a column as a sequence of values
DiseaseColumn(df) == [i \in 1..Len(df) |-> df[i].disease]
SeverityColumn(df) == [i \in 1..Len(df) |-> df[i].severity]

\* Series.value_counts().to_dict()
ValueCounts(column) ==
    [v \in {column[i] : i \in DOMAIN column} |->
        Cardinality({i \in DOMAIN column : column[i] = v})]

\* the dates of a frame that are not NaT
Dated(df) == {df[i].date : i \in {j \in 1..Len(df) : ~df[j].date.isnat}}

\* Series.max() and Series.min() of the date column: NaT values are skipped
DateMax(df) ==
    IF Dated(df) = {} THEN NaT
    ELSE CHOOSE t \in Dated(df) : \A u \in Dated(df) : DayNumber(u) <= DayNumber(t)

DateMin(df) ==
    IF Dated(df) = {} THEN NaT
    ELSE CHOOSE t \in Dated(df) : \A u \in Dated(df) : DayNumber(t) <= DayNumber(u)

\* data[data['date'] >= cutoff], the cutoff a day number: NaT compares False
SinceDay(df, cutoff) ==
    SelectSeq(df, LAMBDA row : ~row.date.isnat /\ DayNumber(row.date) >= cutoff)

\* self.disease_priority.get(disease) == 'high': None for an unlisted name
HasHighPriority(disease) ==
    disease \in DOMAIN disease_priority /\ disease_priority[disease] = "high"

\* Series.mode().iloc[0]: mode() returns the most frequent values sorted
ModeFirst(column) ==
    LET counts == ValueCounts(column)
        modes == {v \in DOMAIN counts : \A w \in DOMAIN counts : counts[w] <= counts[v]}
    IN  CHOOSE v \in modes : \A w \in modes \ {v} : StrLess(v, w)

\* the part of get_summary_statistics after the two strftime calls
SummaryOf(df, first_outbreak, latest_outbreak) ==
    LET known == SelectSeq(df, LAMBDA row : row.disease \in DOMAIN disease_priority)
        recent_data == SinceDay(df, DayNumber(DateMax(df)) - 30)
    IN  [total_outbreaks |-> Len(df),
         unique_diseases |-> Cardinality({df[i].disease : i \in 1..Len(df)}),
         severity_distribution |-> ValueCounts(SeverityColumn(df)),
         most_common_disease |-> ModeFirst(DiseaseColumn(df)),
         high_severity_count |-> Len(SelectSeq(df, LAMBDA row : row.severity = "High")),
         date_range |-> [first_outbreak |-> first_outbreak,
                         latest_outbreak |-> latest_outbreak],
         priority_distribution |->
             ValueCounts([i \in 1..Len(known) |->
                              disease_priority[known[i].disease]]),
         location_stats |->
             [countries_affected |->
                  Cardinality({df[i].location.country : i \in 1..Len(df)} \ {None}),
              cities_affected |->
                  Cardinality({df[i].location.city : i \in 1..Len(df)} \ {None})],
         recent_trends |->
             [total_outbreaks |-> Len(recent_data),
              severity_distribution |-> ValueCounts(SeverityColumn(recent_data))]]

get_summary_statistics(an, region) ==
    LET df == RegionData(an, region)
        first_outbreak == strftime(DateMin(df))
        latest_outbreak == strftime(DateMax(df))
    IN  IF df = <<>>
        THEN Returned([total_outbreaks |-> 0, message |-> region])
        ELSE IF first_outbreak.status = "raised" THEN first_outbreak
        ELSE IF latest_outbreak.status = "raised" THEN latest_outbreak
        ELSE Returned(SummaryOf(df, first_outbreak.value, latest_outbreak.value))

severity_levels == [High |-> 3, Medium |-> 2, Low |-> 1]

\* the permutations of 1..n
Orderings(n) ==
    {p \in [1..n -> 1..n] : \A i, j \in 1..n : i # j => p[i] # p[j]}

\* MayPrecede for ascending=True
MayPrecedeAscending(a, b) ==
    \/ b.date.isnat
    \/ ~a.date.isnat /\ DayNumber(a.date) <= DayNumber(b.date)

\* row a may stand before row b in a frame sorted by date, descending,
\* with NaT last
MayPrecede(a, b) ==
    \/ b.date.isnat
    \/ ~a.date.isnat /\ DayNumber(a.date) >= DayNumber(b.date)

\* the frames sort_values('date', ascending=False) can return: the sort is
\* not stable, so rows of one date come in any order
SortedByDateDescending(df) ==
    {[i \in 1..Len(df) |-> df[p[i]]] : p \in
        {q \in Orderings(Len(df)) :
            \A i \in 1..(Len(df) - 1) : MayPrecede(df[q[i]], df[q[i + 1]])}}

\* the rows get_high_priority_outbreaks keeps, before it sorts them
HighPriorityRows(df, min_severity_level) ==
    SelectSeq(df, LAMBDA row :
        /\ severity_levels[row.severity] >= min_severity_level
        /\ HasHighPriority(row.disease))

\* the set of outcomes of get_high_priority_outbreaks
get_high_priority_outbreaks(an, region, min_severity) ==
    IF min_severity \notin DOMAIN severity_levels
    THEN {Raised("KeyError")}
    ELSE {Returned(sorted) : sorted \in
            SortedByDateDescending(
                HighPriorityRows(RegionData(an, region),
                                 severity_levels[min_severity]))}

\* a set of Timestamps as a sequence in ascending order
RECURSIVE Ascending(_)
Ascending(dates) ==
    IF dates = {} THEN <<>>
    ELSE LET first == CHOOSE t \in dates :
                          \A u \in dates : DayNumber(t) <= DayNumber(u)
         IN  <<first>> \o Ascending(dates \ {first})

\* the sum of the values of a row of counts
RECURSIVE SumOver(_, _)
SumOver(counts, columns) ==
    IF columns = {} THEN 0
    ELSE LET c == CHOOSE c \in columns : TRUE
         IN  counts[c] + SumOver(counts, columns \ {c})

\* the sums of the rows, not accumulated
CumSumForgotten(values) == values

\* Series.cumsum()
RECURSIVE CumSum(_)
CumSum(values) ==
    IF values = <<>> THEN <<>>
    ELSE LET front == CumSum(SubSeq(values, 1, Len(values) - 1))
         IN  Append(front, values[Len(values)]
                           + (IF front = <<>> THEN 0 ELSE front[Len(front)]))

\* data.groupby(['date', 'disease']).size().unstack(fill_value=0): one row
\* for each date that is not NaT, in ascending order, one column for each
\* disease of a dated row
GroupByDateAndDisease(df) ==
    LET dated == SelectSeq(df, LAMBDA row : ~row.date.isnat)
        dates == Ascending(Range([i \in 1..Len(dated) |-> dated[i].date]))
        columns == {dated[i].disease : i \in 1..Len(dated)}
    IN  [i \in 1..Len(dates) |->
            [date |-> dates[i],
             counts |-> [c \in columns |->
                 Len(SelectSeq(dated, LAMBDA row :
                         row.date = dates[i] /\ row.disease = c))]]]

\* the frame with the column cumulative_total added
WithCumulativeTotal(temporal_data) ==
    LET totals == CumSum([i \in 1..Len(temporal_data) |->
                     SumOver(temporal_data[i].counts,
                             DOMAIN temporal_data[i].counts)])
    IN  [i \in 1..Len(temporal_data) |->
            [date |-> temporal_data[i].date,
             counts |-> temporal_data[i].counts,
             cumulative_total |-> totals[i]]]

\* an Optional[int] argument: None, or a number of days
NoWindow == [given |-> FALSE, days |-> 0]
WindowOf(n) == [given |-> TRUE, days |-> n]

\* `if time_window:` holds for a number other than 0
WindowApplies(time_window) == time_window.given /\ time_window.days # 0

\* the rows analyze_temporal_patterns groups, after its three filters
TemporalInput(an, region, disease, time_window, now) ==
    LET by_region == RegionData(an, region)
        by_disease == IF disease # None
                      THEN SelectSeq(by_region, LAMBDA row : row.disease = disease)
                      ELSE by_region
    IN  IF WindowApplies(time_window)
        THEN SinceDay(by_disease, DayNumber(now) - time_window.days)
        ELSE by_disease

\* (for a frame without a dated row the grouping is taken to give a frame
\* without rows)
analyze_temporal_patterns(an, region, disease, time_window, now) ==
    Returned(WithCumulativeTotal(GroupByDateAndDisease(
        TemporalInput(an, region, disease, time_window, now))))

\* the rows of a frame with one disease
RowsOfDisease(df, disease) == SelectSeq(df, LAMBDA row : row.disease = disease)

\* self.disease_priority.get(disease, 'unknown')
PriorityOrUnknown(disease) ==
    IF disease \in DOMAIN disease_priority THEN disease_priority[disease]
    ELSE "unknown"

\* disease_data['date'].max().strftime('%Y-%m-%d'): disease_data is never
\* empty inside the loop over data['disease'].unique()
LatestOutbreak(disease_data) == strftime(DateMax(disease_data))

\* the loop raises at the first disease whose rows are all without a date
analyze_disease_distribution(an, region) ==
    LET df == RegionData(an, region)
        diseases == Range(DiseaseColumn(df))
    IN  IF \E d \in diseases :
               LatestOutbreak(RowsOfDisease(df, d)).status = "raised"
        THEN Raised("ValueError")
        ELSE Returned(
            [d \in diseases |->
                [count |-> Len(RowsOfDisease(df, d)),
                 severity_distribution |->
                     ValueCounts(SeverityColumn(RowsOfDisease(df, d))),
                 priority |-> PriorityOrUnknown(d),
                 latest_outbreak |->
                     LatestOutbreak(RowsOfDisease(df, d)).value]])

\* len(severity_data) / len(data) * 100: the float, as the pair of the
\* numerator and the denominator of the quotient
Percentage(part, whole) ==
    IF whole > 0 THEN <<part * 100, whole>> ELSE <<0, 1>>

\* the rows analyze_severity_trends counts, after its two filters
SeverityInput(an, region, time_window, now) ==
    IF WindowApplies(time_window)
    THEN SinceDay(RegionData(an, region), DayNumber(now) - time_window.days)
    ELSE RegionData(an, region)

analyze_severity_trends(an, region, time_window, now) ==
    LET df == SeverityInput(an, region, time_window, now)
    IN  Returned(
            [severity \in {"High", "Medium", "Low"} |->
                LET severity_data ==
                        SelectSeq(df, LAMBDA row : row.severity = severity)
                IN  [count |-> Len(severity_data),
                     disease_distribution |->
                         ValueCounts(DiseaseColumn(severity_data)),
                     percentage |-> Percentage(Len(severity_data), Len(df))]])

(***************************************************************************)
(* Inputs of the parser: headlines composed of phrases, joined by a blank.  *)
(***************************************************************************)
Phrases ==
    { <<"E","b","o","l","a"," ","c","a","s","e","s">>,
      <<"m","e","a","s","l","e","s">>,
      <<"h","e","p","a","t","i","t","i">>,
      Kampala, Gulu, Uganda, Nairobi,
      <<"o","u","t","b","r","e","a","k">>,
      <<"D","a","k","a","r">>,
      <<"2","0","2","4","-","0","1","-","0","5",":">> }

Blank == <<" ">>
Join(h, p) == IF h = <<>> THEN p ELSE h \o Blank \o p

RECURSIVE Composed(_)
Composed(n) ==
    IF n = 0 THEN {<<>>}
    ELSE LET shorter == Composed(n - 1)
         IN  shorter \cup {Join(h, p) : h \in shorter, p \in Phrases}

Headlines == Composed(MaxPhrases)

\* how a keyword is appended to a headline: directly, or as a new word
Separators == {<<>>, Blank}

HighKeywords == {high_severity[i] : i \in 1..Len(high_severity)}

(***************************************************************************)
(* The parser called on one headline; and the severity analysis called on   *)
(* a headline and on the headline with a high-severity keyword appended.    *)
(***************************************************************************)
InitParser ==
    /\ hashSeed \in 0..(NumSeeds - 1)
    /\ headline \in Headlines
    /\ record = NotCalled
    /\ appended = NotCalled
    /\ data = <<>>
    /\ analyzer = NotCalled
    /\ result = NoResult

ParseHeadline ==
    /\ record.status = "not called"
    /\ appended.status = "not called"
    /\ \E d \in {ParsedFields(headline, hashSeed)} :
          \E geo \in GeoCalls(d) : record' = WithCoordinates(d, geo)
    /\ UNCHANGED <<hashSeed, headline, appended, data, analyzer, result>>

AppendKeyword ==
    /\ record.status = "not called"
    /\ appended.status = "not called"
    /\ \E k \in HighKeywords, sep \in Separators :
          appended' = Returned(
              [keyword |-> k,
               separator |-> sep,
               severity |-> _analyze_severity(headline, hashSeed),
               severity_appended |->
                   _analyze_severity(headline \o sep \o k, hashSeed)])
    /\ UNCHANGED <<hashSeed, headline, record, data, analyzer, result>>

NextParser == ParseHeadline \/ AppendKeyword

SpecParser == InitParser /\ [][NextParser]_vars

(***************************************************************************)
(* The pipeline of main.py and of the tests: process_headlines parses the   *)
(* headlines into a DataFrame, an analyzer is built on it, and operations   *)
(* are called on the analyzer.                                              *)
(***************************************************************************)
Outbreak == <<"o","u","t","b","r","e","a","k">>
In == <<"i","n">>
CasesRise == <<"c","a","s","e","s"," ","r","i","s","e">>
Dakar == <<"D","a","k","a","r">>
January5 == <<"2","0","2","4","-","0","1","-","0","5",":">>
January20 == <<"2","0","2","4","-","0","1","-","2","0",":">>

RECURSIVE Sentence(_)
Sentence(words) ==
    IF words = <<>> THEN <<>> ELSE Join(Sentence(SubSeq(words, 1, Len(words) - 1)),
                                        words[Len(words)])

DataHeadlines ==
    { Sentence(<<January5, Ebola, Outbreak, In, Kampala>>),
      Sentence(<<Ebola, Outbreak, In, Kampala>>),
      Sentence(<<January20, Rabies, CasesRise, In, Nairobi>>),
      Sentence(<<Cholera, Outbreak, In, Dakar>>),
      Sentence(<<January20, Malaria, In, Entebbe>>) }

\* arguments of the operations: the three region strings the code tests for
\* or lets through, and one it does not know
RegionArgs == {"uganda", "east_africa", "all", "kenya"}
SeverityArgs == {"High", "Medium", "Low", "Critical"}
DiseaseArgs == {None, Ebola}
WindowArgs == {NoWindow, WindowOf(0), WindowOf(10)}
\* datetime.now()
Clock == {Timestamp(2024, 1, 25)}

Init ==
    /\ hashSeed = 0
    /\ headline = <<>>
    /\ record = NotCalled
    /\ appended = NotCalled
    /\ data = <<>>
    /\ analyzer = NotCalled
    /\ result = NoResult

\* process_headlines, one headline at a time; an exception of
\* parse_headline ends the run
ProcessHeadline ==
    /\ analyzer.status = "not called"
    /\ record.status # "raised"
    /\ Len(data) < MaxRecords
    /\ \E h \in DataHeadlines :
          /\ headline' = h
          /\ \E d \in {ParsedFields(h, hashSeed)} :
                \E geo \in GeoCalls(d) :
                    /\ record' = WithCoordinates(d, geo)
                    /\ data' = IF record'.status = "returned"
                               THEN Append(data, ToRow(record'.value))
                               ELSE data
    /\ UNCHANGED <<hashSeed, appended, analyzer, result>>

\* AfricaOutbreakAnalyzer(df); process_headlines raises on an empty list
ConstructAnalyzer ==
    /\ analyzer.status = "not called"
    /\ record.status = "returned"
    /\ data # <<>>
    /\ analyzer' = Returned(AfricaOutbreakAnalyzer(data))
    /\ UNCHANGED <<hashSeed, headline, record, appended, data, result>>

\* an operation can be called once the analyzer is built; the operations
\* only read the analyzer, so a run of the model calls one of them
Callable == analyzer.status = "returned" /\ result.outcome.status = "not called"

\* _filter_uganda_data / _filter_east_africa_data, and the same method of
\* an analyzer built on the frame the first call returned
FilterRegion ==
    /\ Callable
    /\ \E region \in RegionArgs \ {"kenya"} :
          result' =
            [call |-> [op |-> "filter", region |-> region],
             outcome |-> Returned(
                [once |-> RegionData(analyzer.value, region),
                 twice |-> RegionData(
                     AfricaOutbreakAnalyzer(RegionData(analyzer.value, region)),
                     region)])]
    /\ UNCHANGED <<hashSeed, headline, record, appended, data, analyzer>>

GetSummaryStatistics ==
    /\ Callable
    /\ \E region \in RegionArgs :
          result' = [call |-> [op |-> "get_summary_statistics", region |-> region],
                     outcome |-> get_summary_statistics(analyzer.value, region)]
    /\ UNCHANGED <<hashSeed, headline, record, appended, data, analyzer>>

GetHighPriorityOutbreaks ==
    /\ Callable
    /\ \E region \in RegionArgs, min_severity \in SeverityArgs :
          \E outcome \in get_high_priority_outbreaks(analyzer.value, region,
                                                     min_severity) :
              result' = [call |-> [op |-> "get_high_priority_outbreaks",
                                   region |-> region,
                                   min_severity |-> min_severity],
                         outcome |-> outcome]
    /\ UNCHANGED <<hashSeed, headline, record, appended, data, analyzer>>

AnalyzeTemporalPatterns ==
    /\ Callable
    /\ \E region \in RegionArgs, disease \in DiseaseArgs,
          time_window \in WindowArgs, now \in Clock :
          result' = [call |-> [op |-> "analyze_temporal_patterns",
                               region |-> region, disease |-> disease,
                               time_window |-> time_window, now |-> now],
                     outcome |-> analyze_temporal_patterns(
                         analyzer.value, region, disease, time_window, now)]
    /\ UNCHANGED <<hashSeed, headline, record, appended, data, analyzer>>

AnalyzeDiseaseDistribution ==
    /\ Callable
    /\ \E region \in RegionArgs :
          result' = [call |-> [op |-> "analyze_disease_distribution",
                               region |-> region],
                     outcome |-> analyze_disease_distribution(analyzer.value,
                                                              region)]
    /\ UNCHANGED <<hashSeed, headline, record, appended, data, analyzer>>

AnalyzeSeverityTrends ==
    /\ Callable
    /\ \E region \in RegionArgs, time_window \in WindowArgs, now \in Clock :
          result' = [call |-> [op |-> "analyze_severity_trends",
                               region |-> region,
                               time_window |-> time_window, now |-> now],
                     outcome |-> analyze_severity_trends(
                         analyzer.value, region, time_window, now)]
    /\ UNCHANGED <<hashSeed, headline, record, appended, data, analyzer>>

Next ==
    \/ ProcessHeadline
    \/ ConstructAnalyzer
    \/ FilterRegion
    \/ GetSummaryStatistics
    \/ GetHighPriorityOutbreaks
    \/ AnalyzeTemporalPatterns
    \/ AnalyzeDiseaseDistribution
    \/ AnalyzeSeverityTrends

Spec == Init /\ [][Next]_vars

(***************************************************************************)
(* Properties of the parser, checked under SpecParser.                      *)
(***************************************************************************)
UgandaNames == {Uganda, Kampala, Entebbe, Gulu, Mbarara}

NamesUganda(h) == \E n \in UgandaNames : Contains(h, n)

\* C1: in every record parse_headline returns, the region flags satisfy
\* is_uganda => is_east_africa and is_east_africa => is_africa.
C1_RegionFlagsNested ==
    record.status = "returned" =>
        /\ record.value.region.is_uganda => record.value.region.is_east_africa
        /\ record.value.region.is_east_africa => record.value.region.is_africa

\* a record of a Uganda headline: all three flags are set
C1_Witness ==
    /\ record.status = "returned"
    /\ record.value.region.is_uganda
    /\ record.value.region.is_east_africa
    /\ record.value.region.is_africa

\* C2: a headline that contains "Uganda" or one of Uganda's city aliases,
\* whatever other place names it contains, gives a record with
\* is_uganda = TRUE and is_east_africa = TRUE (in location and in region).
C2_UgandaHeadlineFlagged ==
    (record.status = "returned" /\ NamesUganda(headline)) =>
        /\ record.value.location.is_uganda
        /\ record.value.location.is_east_africa
        /\ record.value.region.is_uganda
        /\ record.value.region.is_east_africa

\* a headline that names Kampala and Nairobi: the resolved country is Kenya
\* and the record is flagged is_uganda all the same
C2_Witness ==
    /\ record.status = "returned"
    /\ Contains(headline, Kampala)
    /\ Contains(headline, Nairobi)
    /\ record.value.location.country = Kenya
    /\ record.value.location.is_uganda

\* the catalog names that occur in the headline, whatever the case
MatchingDiseases(h) ==
    {d \in african_diseases.high_priority \cup african_diseases.medium_priority
           \cup african_diseases.low_priority : Contains(Lower(h), Lower(d))}

\* the longest matching name, the lexicographically first of the longest
LongestThenFirst(names) ==
    CHOOSE d \in names :
        \A e \in names \ {d} :
            \/ Len(d) > Len(e)
            \/ Len(d) = Len(e) /\ StrLess(d, e)

\* C3: the disease field is Unknown when no catalog name occurs in the
\* headline, and otherwise the longest name that occurs, the
\* lexicographically first among the longest, whatever the iteration order
\* of the disease table.
C3_DiseaseLongestMatch ==
    record.status = "returned" =>
        record.value.disease =
            IF MatchingDiseases(headline) = {} THEN Unknown
            ELSE LongestThenFirst(MatchingDiseases(headline))

\* the tier of a disease name in the catalog
PriorityTierOf(disease) ==
    IF disease \in {Ebola, Malaria, Cholera, Tuberculosis, HIV} THEN "high"
    ELSE IF disease \in {Measles, Meningitis, Rabies} THEN "medium"
    ELSE IF disease \in {Influenza, Hepatitis} THEN "low"
    ELSE "unknown"

\* the score the severity rule states for a record's disease and headline
StatedScore(disease, h) ==
    (CASE PriorityTierOf(disease) = "high" -> 2
       [] PriorityTierOf(disease) = "medium" -> 1
       [] OTHER -> 0)
    + (IF \E i \in 1..Len(high_severity) : Contains(Lower(h), high_severity[i])
       THEN 2
       ELSE IF \E i \in 1..Len(medium_severity) :
                  Contains(Lower(h), medium_severity[i])
       THEN 1
       ELSE 0)

StatedTier(score) ==
    CASE score >= 3 -> "High"
      [] score >= 1 /\ score < 3 -> "Medium"
      [] OTHER -> "Low"

\* C4: the record's severity is the tier of the score of the record's own
\* disease field plus the keyword score of the headline: High from 3,
\* Medium from 1, Low below.
C4_SeverityIsTierOfScore ==
    record.status = "returned" =>
        record.value.severity =
            StatedTier(StatedScore(record.value.disease, headline))

\* a high-priority disease with a medium keyword, a medium-priority disease
\* with a high keyword, and a keyword alone: the three ways to a score
C4_Witness ==
    /\ record.status = "returned"
    /\ record.value.disease = Measles
    /\ StatedScore(record.value.disease, headline) = 3
    /\ record.value.severity = "High"

SeverityRank(severity) ==
    CASE severity = "High" -> 3
      [] severity = "Medium" -> 2
      [] severity = "Low" -> 1

\* C5 as stated: the severity of a headline with a high-severity keyword
\* appended is never lower than the severity of the headline.
C5_AppendNeverLowers ==
    appended.status = "returned" =>
        SeverityRank(appended.value.severity_appended)
            >= SeverityRank(appended.value.severity)

\* C5: the severity of a headline with a high-severity keyword appended as
\* a new word, after a blank, is never lower than the severity of the
\* headline.
C5_AppendWordNeverLowers ==
    (appended.status = "returned" /\ appended.value.separator = Blank) =>
        SeverityRank(appended.value.severity_appended)
            >= SeverityRank(appended.value.severity)

\* a keyword appended as a new word raised the severity from Medium to
\* High, and another left a High headline High
C5_Witness ==
    /\ appended.status = "returned"
    /\ appended.value.separator = Blank
    /\ appended.value.severity = "Medium"
    /\ appended.value.severity_appended = "High"
    /\ Contains(Lower(headline), Lower(Measles))

\* the fields of a record other than the coordinates
WithoutCoordinates(d) ==
    [headline |-> d.headline, date |-> d.date, disease |-> d.disease,
     severity |-> d.severity, region |-> d.region,
     country |-> d.location.country, city |-> d.location.city,
     is_east_africa |-> d.location.is_east_africa,
     is_uganda |-> d.location.is_uganda]

\* C11: for a headline with a resolved country or city, whatever the
\* geocoder does, parse_headline returns a record; when the record has no
\* coordinates, latitude and longitude are both absent and every other
\* field is as in the record of a successful lookup.
C11_GeocoderNeverFailsParse ==
    (record.status # "not called"
        /\ HasLocation(ParsedFields(headline, hashSeed))) =>
        /\ record.status = "returned"
        /\ record.value.location.latitude = None =>
              /\ record.value.location.longitude = None
              /\ WithoutCoordinates(record.value) =
                     WithoutCoordinates(
                         parse_headline(headline, hashSeed, "found").value)

(***************************************************************************)
(* Properties of the analyzer, checked under Spec.                          *)
(***************************************************************************)
RegionTags == {"all", "east_africa", "uganda"}

\* the flag of a record for a region tag
HasRegionFlag(row, tag) ==
    CASE tag = "uganda" -> row.region.is_uganda
      [] tag = "east_africa" -> row.region.is_east_africa
      [] tag = "all" -> TRUE

\* the records of a dataset that carry the flag of a tag, in their order
Flagged(df, tag) == SelectSeq(df, LAMBDA row : HasRegionFlag(row, tag))

\* C6: the region filter returns exactly the records whose flag for the
\* tag is true (all records for All), in their original order; filtering
\* its result again by the same tag returns the same sequence; the source
\* dataset is as it was.
C6_FilterExactOrderedIdempotent ==
    (result.call.op = "filter" /\ result.call.region \in RegionTags) =>
        /\ result.outcome.status = "returned"
        /\ result.outcome.value.once = Flagged(data, result.call.region)
        /\ result.outcome.value.twice = result.outcome.value.once
        /\ analyzer.value.data = data

\* a Uganda filter that keeps two records and drops an East African one
C6_Witness ==
    /\ result.call.op = "filter"
    /\ result.call.region = "uganda"
    /\ Len(result.outcome.value.once) = 2
    /\ Len(Flagged(data, "east_africa")) = 3

\* C7: get_summary_statistics returns, for every region tag, and its
\* total_outbreaks is the number of records of the region-filtered dataset.
C7_SummaryTotalIsFilteredCount ==
    (result.call.op = "get_summary_statistics"
        /\ result.call.region \in RegionTags) =>
        /\ result.outcome.status = "returned"
        /\ result.outcome.value.total_outbreaks
               = Len(Flagged(data, result.call.region))

\* the records a temporal query is stated to cover: of the region, of the
\* disease if one is given, and within the window if one is given
StatedTemporalRecords(df, call) ==
    LET by_region == Flagged(df, call.region)
        by_disease == IF call.disease = None THEN by_region
                      ELSE SelectSeq(by_region,
                                     LAMBDA row : row.disease = call.disease)
    IN  IF call.time_window.given
        THEN SelectSeq(by_disease, LAMBDA row :
                 /\ ~row.date.isnat
                 /\ DayNumber(row.date)
                        >= DayNumber(call.now) - call.time_window.days)
        ELSE by_disease

\* the rows are in ascending date order and the cumulative totals do not
\* decrease
AscendingAndCumulative(rows) ==
    \A i \in 1..(Len(rows) - 1) :
        /\ DayNumber(rows[i].date) < DayNumber(rows[i + 1].date)
        /\ rows[i].cumulative_total <= rows[i + 1].cumulative_total

DatedTemporalRecords(df, call) ==
    LET by_region == Flagged(df, call.region)
        by_disease == IF call.disease = None THEN by_region
                      ELSE SelectSeq(by_region,
                                     LAMBDA row : row.disease = call.disease)
    IN  SelectSeq(by_disease, LAMBDA row :
            /\ ~row.date.isnat
            /\ (call.time_window.given /\ call.time_window.days > 0) =>
                   DayNumber(row.date)
                       >= DayNumber(call.now) - call.time_window.days)

Occurrences(df, row) == Cardinality({i \in 1..Len(df) : df[i] = row})

\* the records get_high_priority_outbreaks is stated to return
StatedHighPriority(df, call) ==
    SelectSeq(Flagged(df, call.region), LAMBDA row :
        /\ SeverityRank(row.severity) >= SeverityRank(call.min_severity)
        /\ PriorityTierOf(row.disease) = "high")

\* by date, descending, every record without a date after every dated one
DateDescendingAbsentLast(rows) ==
    \A i, j \in 1..Len(rows) :
        i < j =>
            /\ rows[i].date.isnat => rows[j].date.isnat
            /\ (~rows[i].date.isnat /\ ~rows[j].date.isnat) =>
                   DayNumber(rows[i].date) >= DayNumber(rows[j].date)

\* C9: get_high_priority_outbreaks returns exactly the region-filtered
\* records whose severity is at least minSeverity and whose disease has
\* priority high, by date descending with the date-absent records last;
\* with minSeverity = High every returned record has severity High.
C9_HighPriorityExactAndSorted ==
    (result.call.op = "get_high_priority_outbreaks"
        /\ result.call.region \in RegionTags
        /\ result.call.min_severity \in {"High", "Medium", "Low"}) =>
        /\ result.outcome.status = "returned"
        /\ Len(result.outcome.value)
               = Len(StatedHighPriority(data, result.call))
        /\ \A row \in Range(StatedHighPriority(data, result.call)) :
               Occurrences(result.outcome.value, row)
                   = Occurrences(StatedHighPriority(data, result.call), row)
        /\ DateDescendingAbsentLast(result.outcome.value)
        /\ result.call.min_severity = "High" =>
               \A i \in 1..Len(result.outcome.value) :
                   result.outcome.value[i].severity = "High"

\* three records returned: the later date, the earlier date, no date; the
\* first of them a Medium record
C9_Witness ==
    /\ result.call.op = "get_high_priority_outbreaks"
    /\ result.call.region = "all"
    /\ result.call.min_severity = "Medium"
    /\ result.outcome.status = "returned"
    /\ Len(result.outcome.value) = 3
    /\ ~result.outcome.value[2].date.isnat
    /\ DayNumber(result.outcome.value[1].date)
           > DayNumber(result.outcome.value[2].date)
    /\ result.outcome.value[3].date.isnat
    /\ result.outcome.value[1].severity = "Medium"

\* C10: an aggregation called with a region tag outside {All, EastAfrica,
\* Uganda}, and get_high_priority_outbreaks called with a minSeverity
\* outside {High, Medium, Low}, reports an error and returns no result.
C10_UnknownArgumentsRejected ==
    (/\ result.call.op \in {"get_summary_statistics",
                            "get_high_priority_outbreaks",
                            "analyze_temporal_patterns"}
     /\ \/ result.call.region \notin RegionTags
        \/ /\ result.call.op = "get_high_priority_outbreaks"
           /\ result.call.min_severity \notin {"High", "Medium", "Low"}) =>
        result.outcome.status = "raised"

\* the text of the earliest and of the latest date among the dated records
\* of a frame; absent when the frame holds no dated record
StatedFirstDate(df) ==
    IF \A i \in 1..Len(df) : df[i].date.isnat THEN None
    ELSE strftime(DateMin(df)).value

StatedLatestDate(df) ==
    IF \A i \in 1..Len(df) : df[i].date.isnat THEN None
    ELSE strftime(DateMax(df)).value

\* a frame that is not empty and holds a record without a date
SomeDateAbsent(df) == \E i \in 1..Len(df) : df[i].date.isnat

\* C12: on a non-empty region-filtered dataset in which some or all records
\* have no date, get_summary_statistics and analyze_disease_distribution
\* return: the records without a date are counted in the totals, the date
\* range and each disease's latest date are those of the dated records,
\* and absent when there is no dated record.
C12_AbsentDatesDoNotRaise ==
    (/\ result.call.op \in {"get_summary_statistics",
                            "analyze_disease_distribution"}
     /\ result.call.region \in RegionTags
     /\ SomeDateAbsent(Flagged(data, result.call.region))) =>
        /\ result.outcome.status = "returned"
        /\ result.call.op = "get_summary_statistics" =>
              /\ result.outcome.value.total_outbreaks
                     = Len(Flagged(data, result.call.region))
              /\ result.outcome.value.date_range.first_outbreak
                     = StatedFirstDate(Flagged(data, result.call.region))
              /\ result.outcome.value.date_range.latest_outbreak
                     = StatedLatestDate(Flagged(data, result.call.region))
        /\ result.call.op = "analyze_disease_distribution" =>
              \A d \in DOMAIN result.outcome.value :
                  /\ result.outcome.value[d].count =
                         Len(SelectSeq(Flagged(data, result.call.region),
                                       LAMBDA row : row.disease = d))
                  /\ result.outcome.value[d].latest_outbreak =
                         StatedLatestDate(
                             SelectSeq(Flagged(data, result.call.region),
                                       LAMBDA row : row.disease = d))

\* the records a windowed severity query is stated to cover: those of the
\* region with a date not before now - windowDays
StatedWindowedRecords(df, call) ==
    SelectSeq(Flagged(df, call.region), LAMBDA row :
        /\ ~row.date.isnat
        /\ DayNumber(row.date) >= DayNumber(call.now) - call.time_window.days)

\* C16: when analyze_severity_trends is given a window, 0 included, the
\* counts of High, Medium and Low cover only the region-filtered records
\* with a date >= now - windowDays; no record without a date is counted,
\* and the three counts sum to the size of the windowed set.
C16_WindowedSeverityCounts ==
    (/\ result.call.op = "analyze_severity_trends"
     /\ result.call.region \in RegionTags
     /\ result.call.time_window.given) =>
        /\ result.outcome.status = "returned"
        /\ \A severity \in {"High", "Medium", "Low"} :
               result.outcome.value[severity].count =
                   Len(SelectSeq(StatedWindowedRecords(data, result.call),
                                 LAMBDA row : row.severity = severity))
        /\ result.outcome.value["High"].count
             + result.outcome.value["Medium"].count
             + result.outcome.value["Low"].count
               = Len(StatedWindowedRecords(data, result.call))

\* the diseases with the largest number of records in a frame
MostFrequent(df) ==
    {d \in Range(DiseaseColumn(df)) :
        \A e \in Range(DiseaseColumn(df)) :
            Len(SelectSeq(df, LAMBDA row : row.disease = e))
                <= Len(SelectSeq(df, LAMBDA row : row.disease = d))}

\* C17: on a non-empty region-filtered dataset most_common_disease is a
\* disease with the largest record count, and of several such the first
\* under the extraction ordering: the longest name, then lexicographic.
C17_MostCommonLongestFirst ==
    (/\ result.call.op = "get_summary_statistics"
     /\ result.call.region \in RegionTags
     /\ Flagged(data, result.call.region) # <<>>
     /\ result.outcome.status = "returned") =>
        /\ result.outcome.value.most_common_disease
               \in MostFrequent(Flagged(data, result.call.region))
        /\ result.outcome.value.most_common_disease
               = LongestThenFirst(MostFrequent(Flagged(data, result.call.region)))

(***************************************************************************)
(* Further properties of the parser, checked under SpecParser.              *)
(***************************************************************************)
\* the headline opens with a token YYYY-MM-DD:
LeadingDateToken(h) ==
    /\ Len(h) >= 11
    /\ \A i \in 1..11 :
          CASE i \in {5, 8} -> h[i] = "-"
            [] i = 11 -> h[i] = ":"
            [] OTHER -> h[i] \in {"0","1","2","3","4","5","6","7","8","9"}

GazetteerNameIn(h) == \E name \in all_locations : Contains(h, name)

SeverityKeywordIn(h) ==
    \/ \E i \in 1..Len(high_severity) : Contains(Lower(h), high_severity[i])
    \/ \E i \in 1..Len(medium_severity) : Contains(Lower(h), medium_severity[i])

\* a headline the parser has nothing to find in
Nonsense(h) ==
    /\ MatchingDiseases(h) = {}
    /\ ~GazetteerNameIn(h)
    /\ ~SeverityKeywordIn(h)
    /\ ~LeadingDateToken(h)

\* C13: for a headline without a catalog disease name, a gazetteer name, a
\* severity keyword or a leading date token, the blank headline included,
\* parse_headline returns a record with disease Unknown, severity Low, no
\* date, no country, no city, and every location and region flag false.
C13_NonsenseHeadlineRecord ==
    (record.status # "not called" /\ Nonsense(headline)) =>
        /\ record.status = "returned"
        /\ record.value.disease = Unknown
        /\ record.value.severity = "Low"
        /\ record.value.date = None
        /\ record.value.location.country = None
        /\ record.value.location.city = None
        /\ ~record.value.location.is_east_africa
        /\ ~record.value.location.is_uganda
        /\ ~record.value.region.is_africa
        /\ ~record.value.region.is_east_africa
        /\ ~record.value.region.is_uganda

\* the record of a headline of two words that say nothing
C13_Witness ==
    /\ record.status = "returned"
    /\ Nonsense(headline)
    /\ Contains(headline, Blank)
    /\ record.value.disease = Unknown
    /\ record.value.date = None

\* C14: in every record region.is_east_africa equals
\* location.is_east_africa and region.is_uganda equals location.is_uganda,
\* so the dataset of the record is filtered alike by the region flags and
\* by the location flags.
C14_RegionFlagsAreLocationFlags ==
    record.status = "returned" =>
        /\ record.value.region.is_east_africa
               = record.value.location.is_east_africa
        /\ record.value.region.is_uganda = record.value.location.is_uganda
        /\ _filter_uganda_data(<<ToRow(record.value)>>)
               = Flagged(<<ToRow(record.value)>>, "uganda")
        /\ _filter_east_africa_data(<<ToRow(record.value)>>)
               = Flagged(<<ToRow(record.value)>>, "east_africa")

\* a record of a headline that names Kampala and Nairobi: the flags of
\* both kinds are set though the resolved country is Kenya
C14_Witness ==
    /\ record.status = "returned"
    /\ record.value.location.country = Kenya
    /\ record.value.location.is_uganda
    /\ record.value.region.is_uganda
    /\ _filter_uganda_data(<<ToRow(record.value)>>) # <<>>

GazetteerCountries ==
    {east_african_countries[i].country : i \in 1..Len(east_african_countries)}

\* the city aliases of a gazetteer country
AliasesOf(country) ==
    UNION {Range(east_african_countries[i].cities) :
              i \in {j \in 1..Len(east_african_countries) :
                         east_african_countries[j].country = country}}

\* C15: in every record the location flags come from the one resolved
\* match: is_uganda iff country = Uganda, is_east_africa iff country is a
\* gazetteer country, and a city that is not absent is an alias of country.
C15_FlagsOfResolvedMatch ==
    record.status = "returned" =>
        /\ record.value.location.is_uganda
               <=> record.value.location.country = Uganda
        /\ record.value.location.is_east_africa
               <=> record.value.location.country \in GazetteerCountries
        /\ record.value.location.city # None =>
               record.value.location.city
                   \in AliasesOf(record.value.location.country)

====
